---------------------------- MODULE Spec2Model ----------------------------
(* Model of notebooks/KdV.ipynb: forward-Euler integration of the linear   *)
(* KdV equation on a periodic grid, followed by the animation.             *)
(*                                                                         *)
(* Numbers.  A NumPy/Python float is modelled as an extended rational      *)
(* <<num, den>>: den > 0 and gcd(|num|, den) = 1 for a finite value,       *)
(* <<1,0>> = +inf, <<-1,0>> = -inf, <<0,0>> = NaN.  Every arithmetic       *)
(* result whose magnitude exceeds MaxFinite overflows to an infinity, as   *)
(* IEEE-754 does beyond the largest finite double; inf - inf, 0 * inf,     *)
(* 0 / 0 and inf / inf are NaN.  Rounding, underflow and the sign of zero  *)
(* are not modelled: finite arithmetic is exact.                           *)
EXTENDS Integers, Sequences, FiniteSets, TLC

VARIABLES
    L,      \* domain length                       (cell 3, "L = 100.0")
    Nx,     \* number of grid points               (cell 3, "Nx = 256")
    T,      \* total time                          (cell 3, "T = 10.0")
    dt,     \* time step                           (cell 3, "dt = 0.001")
    f,      \* initial condition: <<>> is the notebook's cosine, otherwise
            \* the table of values of f at the Nx grid points
    dx,     \* grid spacing L/Nx
    x,      \* grid coordinates
    Nt,     \* number of steps int(T/dt)
    u0,     \* the state vector, rebound by every step
    n,      \* number of completed iterations of the time loop
    line,   \* the data last handed to the renderer (line.set_data)
    frame,  \* next frame index of the animation
    pc,     \* position in the notebook
    hist,   \* history: hist[k+1] is the state after k completed steps
    probe,  \* stencil experiments: the inputs of the last experiment
    lhs,    \* stencil experiments: left-hand side
    rhs     \* stencil experiments: right-hand side

vars == <<L, Nx, T, dt, f, dx, x, Nt, u0, n, line, frame, pc, hist, probe, lhs, rhs>>

-----------------------------------------------------------------------------
(* Bounds of the model *)

MaxN == 5          \* grid sizes 1..MaxN
MaxT == 3          \* total times 0..MaxT
MaxFinite == 100  \* largest finite magnitude of the modelled float format
MaxShift == 7      \* shifts -MaxShift..MaxShift in the periodicity experiment

-----------------------------------------------------------------------------
(* Extended rational arithmetic: the float operations of Python and NumPy  *)

Abs(m) == IF m < 0 THEN -m ELSE m

Sgn(m) == IF m < 0 THEN -1 ELSE IF m > 0 THEN 1 ELSE 0

\* Operators are applied to their arguments as functions are ([..][<<a, b>>]),
\* so that every argument is evaluated once, before the operation.

Num == Int \X Int

Vec == Seq(Num)

GCDOf[p \in Nat \X Nat] == IF p[2] = 0 THEN p[1] ELSE GCDOf[<<p[2], p[1] % p[2]>>]

GCD(a, b) == GCDOf[<<a, b>>]

NaN == <<0, 0>>

PInf == <<1, 0>>

NInf == <<-1, 0>>

Zero == <<0, 1>>

IsNaN(a) == a = NaN

IsInf(a) == a[2] = 0 /\ a[1] # 0

IsFinite(a) == a[2] > 0

\* the float nearest to num/den (den # 0): reduced, or an infinity on overflow
Norm(num, den) ==
    [p \in Num |->
        LET s  == IF p[2] < 0 THEN -1 ELSE 1
            nn == s * p[1]
            dd == s * p[2]
            g  == GCD(Abs(nn), dd)
            q  == Abs(nn) \div dd
        IN  IF q > MaxFinite \/ (q = MaxFinite /\ Abs(nn) % dd > 0)
            THEN <<Sgn(nn), 0>>
            ELSE <<nn \div g, dd \div g>>][<<num, den>>]

\* int -> float
Rat(m) == Norm(m, 1)

RNeg(a) == [p \in Num |-> <<-p[1], p[2]>>][a]

RAdd(a, b) ==
    [p \in Num \X Num |->
        IF IsNaN(p[1]) \/ IsNaN(p[2]) THEN NaN
        ELSE IF IsInf(p[1]) THEN (IF IsInf(p[2]) /\ p[2] # p[1] THEN NaN ELSE p[1])
        ELSE IF IsInf(p[2]) THEN p[2]
        ELSE LET g == GCD(p[1][2], p[2][2])
                 l == (p[1][2] \div g) * p[2][2]
             IN  Norm(p[1][1] * (l \div p[1][2]) + p[2][1] * (l \div p[2][2]), l)
    ][<<a, b>>]

RSub(a, b) == RAdd(a, RNeg(b))

RMul(a, b) ==
    [p \in Num \X Num |->
        IF IsNaN(p[1]) \/ IsNaN(p[2]) THEN NaN
        ELSE IF IsInf(p[1]) \/ IsInf(p[2])
             THEN (IF p[1][1] = 0 \/ p[2][1] = 0 THEN NaN
                   ELSE <<Sgn(p[1][1]) * Sgn(p[2][1]), 0>>)
        ELSE Norm(p[1][1] * p[2][1], p[1][2] * p[2][2])
    ][<<a, b>>]

\* NumPy true division: x/0 is an infinity (or NaN for 0/0), never an exception
RDiv(a, b) ==
    [p \in Num \X Num |->
        IF IsNaN(p[1]) \/ IsNaN(p[2]) THEN NaN
        ELSE IF IsInf(p[1]) THEN (IF IsInf(p[2]) THEN NaN
                                  ELSE <<p[1][1] * (IF p[2][1] < 0 THEN -1 ELSE 1), 0>>)
        ELSE IF IsInf(p[2]) THEN Zero
        ELSE IF p[2][1] = 0 THEN (IF p[1][1] = 0 THEN NaN ELSE <<Sgn(p[1][1]), 0>>)
        ELSE Norm(p[1][1] * p[2][2], p[1][2] * p[2][1])
    ][<<a, b>>]

\* IEEE comparison: NaN is equal to nothing, itself included
FEq(a, b) == ~IsNaN(a) /\ ~IsNaN(b) /\ a = b

\* a < b on floats that are not NaN
RLess(a, b) ==
    [p \in Num \X Num |->
        IF IsInf(p[1]) \/ IsInf(p[2])
        THEN p[1] # p[2] /\ (p[1] = NInf \/ p[2] = PInf)
        ELSE p[1][1] * p[2][2] < p[2][1] * p[1][2]
    ][<<a, b>>]

\* variant of IntTrunc: rounds a positive quotient up instead of down
IntCeil(r) ==
    [p \in Num |-> IF p[1] >= 0 THEN (p[1] + p[2] - 1) \div p[2]
                   ELSE -((-p[1]) \div p[2])][r]

\* int(r): truncation toward zero of a finite float
IntTrunc(r) ==
    [p \in Num |-> IF p[1] >= 0 THEN p[1] \div p[2] ELSE -((-p[1]) \div p[2])][r]

-----------------------------------------------------------------------------
(* Arrays: element-wise NumPy operations on sequences of floats            *)

VAdd(u, v) ==
    [p \in Vec \X Vec |-> [j \in 1..Len(p[1]) |-> RAdd(p[1][j], p[2][j])]][<<u, v>>]

VSub(u, v) ==
    [p \in Vec \X Vec |-> [j \in 1..Len(p[1]) |-> RSub(p[1][j], p[2][j])]][<<u, v>>]

VScale(s, u) ==
    [p \in Num \X Vec |-> [j \in 1..Len(p[2]) |-> RMul(p[1], p[2][j])]][<<s, u>>]

VDivS(u, s) ==
    [p \in Vec \X Num |-> [j \in 1..Len(p[1]) |-> RDiv(p[1][j], p[2])]][<<u, s>>]

\* np.roll(u, k): the element at index i moves to index i+k (mod N),
\* i.e. np.roll(u, k)[i] = u[(i - k) mod N]  (sequences are 1-based here)
Roll(u, k) ==
    [p \in Vec |-> [j \in 1..Len(p) |-> p[((j - 1 - k) % Len(p)) + 1]]][u]

\* np.cos(2*np.pi*p) with the turn p as argument.  The cosine is modelled
\* exactly wherever it is rational (p a multiple of 1/4 or of 1/6: values
\* 1, 1/2, 0, -1/2, -1) and by linear interpolation between these points;
\* it is even, periodic with period 1, and NaN for a non-finite argument.
Fold(fr) ==
    [q \in Num |->
        IF ~RLess(Norm(1, 6), q) THEN RSub(Rat(1), RMul(Rat(3), q))
        ELSE IF ~RLess(Norm(1, 3), q) THEN RSub(Norm(3, 2), RMul(Rat(6), q))
        ELSE RSub(Norm(1, 2), RMul(Rat(3), q))
    ][IF RLess(Norm(1, 2), fr) THEN RSub(Rat(1), fr) ELSE fr]

CosTurn(t) ==
    [p \in Num |-> IF ~IsFinite(p) THEN NaN ELSE Fold(Norm(p[1] % p[2], p[2]))][t]

\* np.linspace(0, stop, num, endpoint=False): start + i*step, step = stop/num
linspace(stop, num) ==
    [p \in Num \X Int |-> [j \in 1..p[2] |-> RAdd(Zero, RMul(Rat(j - 1), p[1]))]
    ][<<RDiv(RSub(stop, Zero), Rat(num)), num>>]

-----------------------------------------------------------------------------
(* The stencil and the update of one time step                             *)

\* a shift that does not wrap: positions moved in from outside the array are 0
Shift0(u, k) ==
    [p \in Vec |-> [j \in 1..Len(p) |-> IF j - k \in 1..Len(p) THEN p[j - k] ELSE Zero]][u]

\* variant of third_d: the same weights on a grid that is not periodic
third_d_nowrap(u, dxv) ==
    VDivS(VSub(VAdd(VSub(Shift0(u, -2), VScale(Rat(2), Shift0(u, -1))),
                    VScale(Rat(2), Shift0(u, 1))),
               Shift0(u, 2)),
          RMul(Rat(2), RMul(RMul(dxv, dxv), dxv)))

\* variant of third_d: the rolls taken in the opposite direction
third_d_reversed(u, dxv) ==
    VDivS(VSub(VAdd(VSub(Roll(u, 2), VScale(Rat(2), Roll(u, 1))),
                    VScale(Rat(2), Roll(u, -1))),
               Roll(u, -2)),
          RMul(Rat(2), RMul(RMul(dxv, dxv), dxv)))

\* variant of third_d: the advective term u * du/dx of the full KdV equation
\* added to the dispersive one
third_d_advective(u, dxv) ==
    LET disp == VDivS(VSub(VAdd(VSub(Roll(u, -2), VScale(Rat(2), Roll(u, -1))),
                                VScale(Rat(2), Roll(u, 1))),
                           Roll(u, 2)),
                      RMul(Rat(2), RMul(RMul(dxv, dxv), dxv)))
        grad == VDivS(VSub(Roll(u, -1), Roll(u, 1)), RMul(Rat(2), dxv))
    IN  VAdd(disp, [p \in Vec \X Vec |->
                      [j \in 1..Len(p[1]) |-> RMul(p[1][j], p[2][j])]][<<u, grad>>])

third_d(u, dxv) ==
    VDivS(VSub(VAdd(VSub(Roll(u, -2), VScale(Rat(2), Roll(u, -1))),
                    VScale(Rat(2), Roll(u, 1))),
               Roll(u, 2)),
          RMul(Rat(2), RMul(RMul(dxv, dxv), dxv)))

\* variant of euler_step: the array is updated element by element in place,
\* so that later stencil values read elements already updated
RECURSIVE InPlace(_, _, _, _)
InPlace(u, dtv, dxv, j) ==
    [p \in Vec |->
        IF j > Len(p) THEN p
        ELSE InPlace([p EXCEPT ![j] = RSub(p[j], RMul(dtv, third_d(p, dxv)[j]))],
                     dtv, dxv, j + 1)][u]

euler_step_inplace(u, dtv, dxv) == InPlace(u, dtv, dxv, 1)

\* the loop body: u0 - dt * third_d(u0, dx), a new array built from the old one
euler_step(u, dtv, dxv) == VSub(u, VScale(dtv, third_d(u, dxv)))

\* variant of analytic: the frame index is ignored
analytic_still(xs, Lv, i, dtv, Tv) ==
    [p \in Vec |-> [j \in 1..Len(p) |-> CosTurn(RDiv(p[j], Lv))]][xs]

\* u = np.cos(2*np.pi * (x/L - i*dt/T))
analytic(xs, Lv, i, dtv, Tv) ==
    [p \in Vec \X Num |-> [j \in 1..Len(p[1]) |-> CosTurn(RSub(RDiv(p[1][j], Lv), p[2]))]
    ][<<xs, RDiv(RMul(Rat(i), dtv), Tv)>>]

\* u0 = np.cos(2*np.pi * x/L), or the table of another initial condition
initial_state(xs, Lv, fv) ==
    IF fv = <<>>
    THEN [p \in Vec |-> [j \in 1..Len(p) |-> CosTurn(RDiv(p[j], Lv))]][xs]
    ELSE fv

-----------------------------------------------------------------------------
(* Inputs                                                                  *)

InitVals == {Rat(0), Rat(1)}

SpacingVals == {Norm(1, 2), Rat(1), Rat(2)}

BadSpacingVals == {Rat(0), Rat(-1)}

DtVals == {Rat(1), Rat(2)}

Tables(num) == [1..num -> InitVals]

NoLine == [x |-> <<>>, u |-> <<>>]

\* before cell 3 has run nothing is assigned
Init ==
    /\ L = Zero
    /\ Nx = 0
    /\ T = Zero
    /\ dt = Zero
    /\ f = <<>>
    /\ dx = Zero
    /\ x = <<>>
    /\ Nt = 0
    /\ u0 = <<>>
    /\ n = 0
    /\ line = NoLine
    /\ frame = 0
    /\ pc = "setup"
    /\ hist = <<>>
    /\ probe = <<>>
    /\ lhs = <<>>
    /\ rhs = <<>>

-----------------------------------------------------------------------------
(* The notebook                                                            *)

\* variant of SetupOn: the grid is validated and a bad one rejected
SetupOnChecked(spacings) ==
    /\ pc = "setup"
    /\ Nx' \in 1..MaxN
    /\ L' \in {RMul(Rat(Nx'), d) : d \in spacings}
    /\ T' \in {Rat(t) : t \in 0..MaxT}
    /\ dt' \in DtVals
    /\ f' \in {<<>>} \cup Tables(Nx')
    /\ IF Nx' < 5 \/ ~RLess(Zero, L')
       THEN /\ pc' = "InvalidGrid"
            /\ UNCHANGED <<dx, x, Nt, u0, hist>>
       ELSE /\ dx' = RDiv(L', Rat(Nx'))
            /\ x' = linspace(L', Nx')
            /\ Nt' = IntTrunc(RDiv(T', dt'))
            /\ u0' = initial_state(x', L', f')
            /\ hist' = <<u0'>>
            /\ pc' = "stepping"
    /\ n' = 0
    /\ UNCHANGED <<line, frame, probe, lhs, rhs>>

\* cell 3: the parameters (the notebook's literals, here any value of the
\* input sets), then the grid, the step count and the initial condition
SetupOn(spacings) ==
    /\ pc = "setup"
    /\ Nx' \in 1..MaxN
    /\ L' \in {RMul(Rat(Nx'), d) : d \in spacings}
    /\ T' \in {Rat(t) : t \in 0..MaxT}
    /\ dt' \in DtVals
    /\ f' \in {<<>>} \cup Tables(Nx')
    /\ dx' = RDiv(L', Rat(Nx'))
    /\ x' = linspace(L', Nx')
    /\ Nt' = IntTrunc(RDiv(T', dt'))
    /\ u0' = initial_state(x', L', f')
    /\ hist' = <<u0'>>
    /\ n' = 0
    /\ pc' = "stepping"
    /\ UNCHANGED <<line, frame, probe, lhs, rhs>>

\* cell 3 with a positive domain length
Setup == SetupOn(SpacingVals)

\* cell 3 with a domain length that may be zero or negative as well
SetupAnyGrid == SetupOn(SpacingVals \cup BadSpacingVals)

AllFinite(u) == \A j \in 1..Len(u) : IsFinite(u[j])

\* variant of Step: the loop stops at a state that holds a non-finite value
StepChecked ==
    /\ pc = "stepping"
    /\ n < Nt
    /\ AllFinite(u0)
    /\ u0' = euler_step(u0, dt, dx)
    /\ n' = n + 1
    /\ hist' = Append(hist, u0')
    /\ UNCHANGED <<L, Nx, T, dt, f, dx, x, Nt, line, frame, pc, probe, lhs, rhs>>

\* one iteration of "for n in range(Nt)"
Step ==
    /\ pc = "stepping"
    /\ n < Nt
    /\ u0' = euler_step(u0, dt, dx)
    /\ n' = n + 1
    /\ hist' = Append(hist, u0')
    /\ UNCHANGED <<L, Nx, T, dt, f, dx, x, Nt, line, frame, pc, probe, lhs, rhs>>

\* the loop is exhausted; "line, = ax.plot([], [], lw=2)"
AnimationSetup ==
    /\ pc = "stepping"
    /\ n = Nt
    /\ line' = NoLine
    /\ pc' = "show"
    /\ UNCHANGED <<L, Nx, T, dt, f, dx, x, Nt, u0, n, frame, hist, probe, lhs, rhs>>

\* init(): line.set_data([], [])
init ==
    /\ pc = "show"
    /\ line' = NoLine
    /\ frame' = 0
    /\ pc' = "frames"
    /\ UNCHANGED <<L, Nx, T, dt, f, dx, x, Nt, u0, n, hist, probe, lhs, rhs>>

\* animate(i) for i in range(Nt)
animate ==
    /\ pc = "frames"
    /\ frame < Nt
    /\ line' = [x |-> x, u |-> analytic(x, L, frame, dt, T)]
    /\ frame' = frame + 1
    /\ UNCHANGED <<L, Nx, T, dt, f, dx, x, Nt, u0, n, pc, hist, probe, lhs, rhs>>

Next == Setup \/ Step \/ AnimationSetup \/ init \/ animate

Spec == Init /\ [][Next]_vars

\* the sequential notebook always runs its next statement
FairSpec == Spec /\ WF_vars(Next)

\* the same notebook on grids whose length L is zero or negative as well
NextAnyGrid == SetupAnyGrid \/ Step \/ AnimationSetup \/ init \/ animate

SpecAnyGrid == Init /\ [][NextAnyGrid]_vars

-----------------------------------------------------------------------------
(* Experiments on the stencil as a pure function                           *)

Scalars == {Rat(-1), Norm(1, 2), Rat(2)}

\* the unit vectors and the constant vector 1
ProbeTables(num) ==
    {[j \in 1..num |-> IF j = k THEN Rat(1) ELSE Zero] : k \in 1..num}
        \cup {[j \in 1..num |-> Rat(1)]}

StencilSpacings == {Norm(1, 2), Rat(2)}

InitStencil ==
    /\ Nx \in 1..MaxN
    /\ \E d \in StencilSpacings : L = RMul(Rat(Nx), d)
    /\ dx = RDiv(L, Rat(Nx))
    /\ u0 \in Tables(Nx)
    /\ T = Zero
    /\ dt = Rat(1)
    /\ f = u0
    /\ x = linspace(L, Nx)
    /\ Nt = 0
    /\ n = 0
    /\ line = NoLine
    /\ frame = 0
    /\ pc = "stencil"
    /\ hist = <<u0>>
    /\ probe = <<>>
    /\ lhs = <<>>
    /\ rhs = <<>>

\* third_d of a linear combination, and the linear combination of the third_d
Linearity ==
    /\ pc = "stencil"
    /\ \E v \in ProbeTables(Nx), a \in Scalars, b \in Scalars :
          /\ probe' = [v |-> v, a |-> a, b |-> b]
          /\ lhs' = third_d(VAdd(VScale(a, u0), VScale(b, v)), dx)
          /\ rhs' = VAdd(VScale(a, third_d(u0, dx)), VScale(b, third_d(v, dx)))
    /\ pc' = "linearity"
    /\ UNCHANGED <<L, Nx, T, dt, f, dx, x, Nt, u0, n, line, frame, hist>>

\* third_d of the rolled array, and the rolled third_d
Periodicity ==
    /\ pc = "stencil"
    /\ \E k \in -MaxShift..MaxShift :
          /\ probe' = [k |-> k]
          /\ lhs' = third_d(Roll(u0, k), dx)
          /\ rhs' = Roll(third_d(u0, dx), k)
    /\ pc' = "periodicity"
    /\ UNCHANGED <<L, Nx, T, dt, f, dx, x, Nt, u0, n, line, frame, hist>>

NextStencil == Linearity \/ Periodicity

SpecStencil == InitStencil /\ [][NextStencil]_vars

-----------------------------------------------------------------------------
(* Measurements used by the properties                                     *)

\* element i of u with the 0-based index i taken modulo the length of u
At(u, i) == u[(i % Len(u)) + 1]

TwoDxCubed(dxv) == RMul(Rat(2), RMul(RMul(dxv, dxv), dxv))

\* (u[i+2] - 2 u[i+1] + 2 u[i-1] - u[i-2]) / (2 dx^3), indices modulo N
D3Forward(u, dxv, i) ==
    RDiv(RSub(RAdd(RSub(At(u, i + 2), RMul(Rat(2), At(u, i + 1))),
                   RMul(Rat(2), At(u, i - 1))),
              At(u, i - 2)),
         TwoDxCubed(dxv))

\* (u[i-2] - 2 u[i-1] + 2 u[i+1] - u[i+2]) / (2 dx^3), indices modulo N
D3Backward(u, dxv, i) ==
    RDiv(RSub(RAdd(RSub(At(u, i - 2), RMul(Rat(2), At(u, i - 1))),
                   RMul(Rat(2), At(u, i + 1))),
              At(u, i + 2)),
         TwoDxCubed(dxv))

IsConstant(u) == \A j \in 1..Len(u) : u[j] = u[1]

\* the exact sum of the first k values of u, all finite, as a reduced
\* fraction <<num, den>> of unbounded magnitude
RECURSIVE ExactSum(_, _)
ExactSum(u, k) ==
    IF k = 0 THEN <<0, 1>>
    ELSE LET r   == ExactSum(u, k - 1)
             l   == (r[2] \div GCD(r[2], u[k][2])) * u[k][2]
             num == r[1] * (l \div r[2]) + u[k][1] * (l \div u[k][2])
             g   == GCD(Abs(num), l)
         IN  <<num \div g, l \div g>>

SameFraction(a, b) == a[1] * b[2] = b[1] * a[2]

Started == pc \in {"stepping", "show", "frames"}

LoopDone == pc \in {"show", "frames"}

-----------------------------------------------------------------------------
(* C1 *)

\* C1 as stated: at every index the stencil returns
\* (u[i-2] - 2 u[i-1] + 2 u[i+1] - u[i+2]) / (2 dx^3), indices modulo N.
C1_AsStated ==
    Started => LET d3 == third_d(u0, dx)
               IN  \A i \in 0..(Nx - 1) : d3[i + 1] = D3Backward(u0, dx, i)

\* C1 amended: at every index the stencil returns
\* (u[i+2] - 2 u[i+1] + 2 u[i-1] - u[i-2]) / (2 dx^3), indices modulo N:
\* weight -1 on u[i-2], +2 on u[i-1], -2 on u[i+1], +1 on u[i+2].
C1_StencilWeights ==
    Started => LET d3 == third_d(u0, dx)
               IN  \A i \in 0..(Nx - 1) : d3[i + 1] = D3Forward(u0, dx, i)

C1_Witness ==
    /\ pc = "stepping" /\ n >= 1 /\ Nx >= 5 /\ AllFinite(u0)
    /\ \E i \in 0..(Nx - 1) :
          /\ IsFinite(D3Forward(u0, dx, i))
          /\ D3Forward(u0, dx, i) # Zero
          /\ At(u0, i - 2) # At(u0, i + 2)
          /\ At(u0, i - 1) # At(u0, i + 1)

-----------------------------------------------------------------------------
(* C2 *)

\* C2: a time step is synchronous: every new u[i] is the old u[i] minus
\* dt times the stencil value at i computed from the old array only.
C2_SynchronousStep ==
    [][n' = n + 1 =>
         \A i \in 0..(Nx - 1) :
             u0'[i + 1] = RSub(At(u0, i), RMul(dt, D3Forward(u0, dx, i)))]_vars

C2_Witness ==
    /\ pc = "stepping" /\ n >= 2 /\ Nx >= 5 /\ AllFinite(u0)
    /\ \A j \in 1..Nx : u0[j] # hist[n][j]

-----------------------------------------------------------------------------
(* C3 *)

\* C3: the loop applies the step exactly Nt = floor(T/dt) times, one after
\* the other, the step index never skipping, repeating or going back, and
\* the run always reaches the terminal state after Nt steps.
C3_ExactlyNtSteps ==
    /\ [][\/ n' = n /\ hist' = hist
          \/ pc = "setup" /\ n' = 0 /\ Len(hist') = 1
          \/ /\ pc = "stepping" /\ n < Nt /\ n' = n + 1
             /\ Len(hist') = n' + 1
             /\ \A k \in 1..Len(hist) : hist'[k] = hist[k]]_vars
    /\ [](Started => /\ ~RLess(T, RMul(Rat(Nt), dt))
                     /\ RLess(T, RMul(Rat(Nt + 1), dt))
                     /\ n <= Nt)
    /\ <>(LoopDone /\ n = Nt /\ Len(hist) = Nt + 1)

C3_Witness == pc = "show" /\ n = Nt /\ Nt >= 3 /\ Len(hist) = Nt + 1

-----------------------------------------------------------------------------
(* C4 *)

\* C4: on a constant field the stencil is 0 at every index, and the state
\* after every step of the integration equals the initial state.
C4_ConstantFixedPoint ==
    (Started /\ IsConstant(hist[1]))
        => /\ u0 = hist[1]
           /\ third_d(u0, dx) = [j \in 1..Nx |-> Zero]

C4_Witness ==
    /\ pc = "show" /\ n = Nt /\ Nt >= 2 /\ Nx >= 5
    /\ IsConstant(hist[1]) /\ hist[1][1] # Zero

-----------------------------------------------------------------------------
(* C5 *)

\* C5: the stencil is linear: third_d(a u + b v) = a third_d(u) + b third_d(v)
\* at every index.
C5_Linear ==
    pc = "linearity" => \A j \in 1..Nx : FEq(lhs[j], rhs[j])

C5_Witness ==
    /\ pc = "linearity" /\ Nx >= 5
    /\ \E i \in 0..(Nx - 1) :
          /\ lhs[i + 1] # Zero
          /\ D3Forward(u0, dx, i) # Zero
          /\ D3Forward(probe.v, dx, i) # Zero

-----------------------------------------------------------------------------
(* C6 *)

\* C6: the stencil commutes with cyclic shifts: third_d of u rolled by k is
\* third_d of u rolled by k; a roll by a multiple of N changes nothing.
C6_ShiftInvariant ==
    pc = "periodicity"
        => LET d3 == third_d(u0, dx)
           IN  /\ lhs = rhs
               /\ \A i \in 0..(Nx - 1) : lhs[i + 1] = At(d3, i - probe.k)
               /\ (probe.k % Nx = 0 => lhs = d3)

C6_Witness ==
    /\ pc = "periodicity" /\ Nx >= 5 /\ probe.k = Nx
    /\ \E j \in 1..Nx : lhs[j] # Zero
    /\ ~IsConstant(lhs)

-----------------------------------------------------------------------------
(* C7 *)

-----------------------------------------------------------------------------
(* C8 *)

-----------------------------------------------------------------------------
(* C9 *)

FrameShown == pc = "frames" /\ frame >= 1

-----------------------------------------------------------------------------
(* C10 *)

\* C10 as stated: the stencil sums to 0 over the grid and the sum of the
\* state after any number of steps equals the sum of the initial state.
C10_AsStated ==
    Started => LET d3 == third_d(u0, dx)
               IN  /\ AllFinite(d3)
                   /\ SameFraction(ExactSum(d3, Nx), <<0, 1>>)
                   /\ AllFinite(u0)
                   /\ SameFraction(ExactSum(u0, Nx), ExactSum(hist[1], Nx))

\* C10 amended: as long as no value has overflowed (every value of the
\* state, respectively of the stencil, is finite) the stencil sums to 0
\* over the grid and the sum of the state equals the sum of the initial
\* state.
C10_SumConserved ==
    Started =>
        LET d3 == third_d(u0, dx)
        IN  /\ (AllFinite(d3) => SameFraction(ExactSum(d3, Nx), <<0, 1>>))
            /\ (AllFinite(u0)
                   => SameFraction(ExactSum(u0, Nx), ExactSum(hist[1], Nx)))

C10_Witness ==
    /\ pc = "show" /\ n = Nt /\ Nt >= 3 /\ Nx >= 5 /\ AllFinite(u0)
    /\ ~IsConstant(u0) /\ u0 # hist[1]
    /\ ~SameFraction(ExactSum(u0, Nx), <<0, 1>>)

=============================================================================
